---- MODULE Spec2Model ----
(***************************************************************************)
(* A model of kuper.py: main() and get_gitlab_commits().                   *)
(*                                                                         *)
(* Strings whose characters matter (repository paths, branch names) are    *)
(* sequences of one-character strings, compared by code point as Python    *)
(* compares str. A remote response is drawn when the code reads it: a      *)
(* request step draws status, page length and next link, and every loop    *)
(* iteration draws the record it reads. What the server can still serve    *)
(* (pages, records) is dropped when the code leaves the listing.           *)
(***************************************************************************)
EXTENDS Integers, Sequences, FiniteSets, TLC

\* ------------------------------------------------------------------ bounds
\* pages a paginated listing has at most (the last one carries no next link)
MaxPages == 2
\* events the event listing serves in one run, over all its pages
MaxEvents == 3
\* commit records the commit listings serve in one run, over all candidates
MaxCommits == 3
\* longest rule / repository path drawn for the exclude-rule test
MaxLen == 3
\* remote calls that fail in one run
MaxFaults == 1
\* events and commit records served by a server that may ignore the query
AnyServerEvents == 2
AnyServerCommits == 2
\* what the server can serve in the runs checked for termination
FairEvents == 1
FairCommits == 2

\* ----------------------------------------------------------------- strings
\* the characters in use, in ascending code point order
Alphabet ==
    << " ", "-", "/", "B", "P", "U", "a", "b", "c", "d", "e", "f", "g", "i",
       "j", "k", "l", "m", "n", "o", "p", "r", "s", "t", "u", "v", "w", "x",
       "y" >>

Ord(c) == CHOOSE i \in DOMAIN Alphabet : Alphabet[i] = c

\* Python's s < t on str: the first differing character decides, a proper
\* prefix is smaller
StrLess(s, t) ==
    \E i \in 1..(Len(s) + 1) :
        /\ i <= Len(t)
        /\ \A j \in 1..(i - 1) : s[j] = t[j]
        /\ \/ i = Len(s) + 1
           \/ Ord(s[i]) < Ord(t[i])

\* str.startswith
StartsWith(s, p) == Len(p) <= Len(s) /\ SubSeq(s, 1, Len(p)) = p

\* str.replace("refs/heads/", ""); the prefix is one token of a ref
RefsHeads == "refs/heads/"
StripRefsHeads(ref) == SelectSeq(ref, LAMBDA c : c # RefsHeads)

UnknownProject ==
    << "U", "n", "k", "n", "o", "w", "n", " ", "P", "r", "o", "j", "e", "c", "t" >>
UnknownBranch == << "u", "n", "k", "n", "o", "w", "n", "-", "b", "r", "a", "n", "c", "h" >>

b_master == << "m", "a", "s", "t", "e", "r" >>
b_main == << "m", "a", "i", "n" >>
b_prod == << "p", "r", "o", "d" >>
b_nonprod == << "n", "o", "n", "p", "r", "o", "d" >>
b_develop == << "d", "e", "v", "e", "l", "o", "p" >>
b_development == << "d", "e", "v", "e", "l", "o", "p", "m", "e", "n", "t" >>
b_feature_x == << "f", "e", "a", "t", "u", "r", "e", "/", "x" >>

\* ------------------------------------------------------------- environment
\* the projects of the instance and their path_with_namespace
Projects == {1, 2, 3}
ProjPath ==
    << << "g", "/", "p" >>, << "a", "/", "x" >>, << "B", "/", "y" >> >>

\* config.get("excludes", [])
Excludes == << << "g", "/", "p" >> >>

\* the events the event listing can return: pushes to one branch of
\* projects 1 and 3 and to two branches of project 2, an event that is no
\* push, a push without a project id (0) and a push without a ref (<< >>)
Ref(branch) == << RefsHeads >> \o branch

Events ==
    { [action_name |-> "pushed to", project_id |-> 1, ref |-> Ref(b_main)],
      [action_name |-> "pushed to", project_id |-> 2, ref |-> Ref(b_main)],
      [action_name |-> "pushed new", project_id |-> 2, ref |-> Ref(b_develop)],
      [action_name |-> "pushed to", project_id |-> 3, ref |-> Ref(b_feature_x)],
      [action_name |-> "joined", project_id |-> 2, ref |-> Ref(b_main)],
      [action_name |-> "pushed to", project_id |-> 0, ref |-> Ref(b_main)],
      [action_name |-> "pushed to", project_id |-> 3, ref |-> << >>] }

\* user_profile.get("email")
UserEmail == "me@example.org"
OtherEmail == "other@example.org"

\* days_ago: the window start, an instant in seconds
WindowStart == 10000

\* the commits of the instance: created_at is a wall-clock time (seconds)
\* written with a UTC offset (seconds). s1 and s2 are the user's, inside the
\* window, s1 the earlier instant and the later wall-clock time; s4 is
\* another author's and s5 is older than the window
Commits ==
    { [short_id |-> "s1", created_at |-> [wall |-> 20000, off |-> 7200],
       author_email |-> UserEmail],
      [short_id |-> "s2", created_at |-> [wall |-> 14000, off |-> 0],
       author_email |-> UserEmail],
      [short_id |-> "s4", created_at |-> [wall |-> 15000, off |-> 0],
       author_email |-> OtherEmail],
      [short_id |-> "s5", created_at |-> [wall |-> 9000, off |-> 0],
       author_email |-> UserEmail] }

\* the instant (UTC seconds) a created_at denotes
Instant(t) == t.wall - t.off

CommitOf(sha) == CHOOSE c \in Commits : c.short_id = sha

VARIABLES
    pc,                         \* position in main / get_gitlab_commits
    fetch_diffs,                \* args.report
    honours,                    \* the server applies the author / since query
    faults_left,                \* remote calls that can still fail
    ev_pages_left,              \* event pages the server can still serve
    ev_budget,                  \* events the server can still serve
    ev_left, ev_next,           \* events unread in the page, its next link
    project_cache,              \* project id -> repo name, << >> when absent
    skipped_repos,
    active_repos_and_branches,
    sorted_active_branches,
    idx,                        \* position in sorted_active_branches
    cm_pages_left,              \* commit pages the candidate can still serve
    cm_budget,                  \* commit records the server can still serve
    cm_left, cm_next,           \* commits unread in the page, its next link
    all_commits,
    processed_shas,
    fetched,                    \* history: candidates whose listing was requested
    failed,                     \* history: candidates whose listing failed
    diff_failed,                \* history: shas whose diff request failed
    report,                     \* what get_gitlab_commits returned
    printed,                    \* the messages printed
    exit_code,                  \* -1 while running
    html_file,                  \* the HTML report was written
    page_requests,              \* history: requests per page of the listing
                                \* in progress
    project_requests,           \* history: project-detail requests per id
    diff_requests,              \* history: diff requests per short id
    m_pc, m_excludes, m_name, m_excluded, m_rule   \* the exclude-rule test

cfgVars == << fetch_diffs, honours >>

envVars == << faults_left >>

scanVars ==
    << ev_pages_left, ev_budget, ev_left, ev_next, project_cache,
       skipped_repos, active_repos_and_branches >>

listVars ==
    << sorted_active_branches, idx, cm_pages_left, cm_budget, cm_left,
       cm_next, all_commits, processed_shas, fetched, failed, diff_failed >>

outVars == << report, printed, exit_code, html_file >>

reqVars == << page_requests, project_requests, diff_requests >>

matchVars == << m_pc, m_excludes, m_name, m_excluded, m_rule >>

mainVars == << pc, cfgVars, envVars, scanVars, listVars, outVars, reqVars >>

vars == << mainVars, matchVars >>

\* ------------------------------------------------------------------- main
\* main(), up to the call of get_gitlab_commits: get_current_user answers
\* or fails, and a failure ends the run with exit status 1
GetCurrentUser ==
    /\ pc = "main_user"
    /\ \/ /\ pc' = "events_req"
          /\ UNCHANGED << printed, exit_code, faults_left >>
       \/ /\ faults_left > 0
          /\ faults_left' = faults_left - 1
          /\ printed' = printed \cup {<< "user_error" >>, << "abort" >>}
          /\ exit_code' = 1
          /\ pc' = "exit"
    /\ UNCHANGED << cfgVars, scanVars, listVars, report, html_file, reqVars,
                    matchVars >>

\* the page a request asks for: the first page of the listing, or the page
\* the next link of the last page names
PageNo(pages_left) == MaxPages - pages_left + 1

\* ------------------------------------------------- step 1: the event scan
AfterEventsFailureReturns == "return"

\* where the except clause of the event scan leaves: break ends the while
\* loop and step 2 starts
AfterEventsFailure == "sort"

\* requests.get(events_url) and raise_for_status: a failure prints and
\* leaves the loop; a page is read event by event
RequestEvents ==
    /\ pc = "events_req"
    /\ ev_pages_left > 0
    /\ page_requests' = [page_requests EXCEPT ![PageNo(ev_pages_left)] = @ + 1]
    /\ \/ /\ faults_left > 0
          /\ faults_left' = faults_left - 1
          /\ printed' = printed \cup {<< "events_error" >>}
          /\ pc' = AfterEventsFailure
          /\ ev_pages_left' = 0
          /\ ev_budget' = 0
          /\ ev_left' = 0
          /\ ev_next' = FALSE
       \/ \E n \in 0..ev_budget,
             next \in (IF ev_pages_left > 1 THEN BOOLEAN ELSE {FALSE}) :
             /\ ev_left' = n
             /\ ev_next' = next
             /\ ev_budget' = ev_budget - n
             /\ ev_pages_left' = ev_pages_left - 1
             /\ pc' = "events_loop"
             /\ UNCHANGED << printed, faults_left >>
    /\ UNCHANGED << cfgVars, project_cache, skipped_repos,
                    active_repos_and_branches, listVars, report, exit_code,
                    html_file, project_requests, diff_requests, matchVars >>

\* "pushed" in action_name
ContainsPushed(action_name) == action_name \in {"pushed to", "pushed new"}

\* the exclude loop: the index of the first rule the name starts with, 0
\* when there is none
FirstMatch(repo_name, excludes) ==
    LET M == {i \in DOMAIN excludes : StartsWith(repo_name, excludes[i])}
    IN  IF M = {} THEN 0 ELSE CHOOSE i \in M : \A j \in M : i <= j

LookupForgetsFailure(cache, project_id, lk) ==
    IF cache[project_id] # << >> \/ lk # "ok"
    THEN cache
    ELSE [cache EXCEPT ![project_id] = ProjPath[project_id]]

\* project_cache after the lookup of an uncached project: the path on a 200
\* answer, "Unknown Project" on any other status and on a request exception
Lookup(cache, project_id, lk) ==
    IF cache[project_id] # << >>
    THEN cache
    ELSE [cache EXCEPT
            ![project_id] = IF lk = "ok" THEN ProjPath[project_id]
                            ELSE UnknownProject]

\* push_data.get("ref", "unknown-branch").replace("refs/heads/", "")
BranchOf(ev) == StripRefsHeads(IF ev.ref = << >> THEN UnknownBranch ELSE ev.ref)

\* the body of "for event in events" for one event
AfterEvent(ev, lk) ==
    LET same == [cache |-> project_cache, skipped |-> skipped_repos,
                 active |-> active_repos_and_branches, printed |-> printed]
    IN  IF ~ContainsPushed(ev.action_name) \/ ev.project_id = 0
        THEN same
        ELSE LET cache == Lookup(project_cache, ev.project_id, lk)
                 repo_name == cache[ev.project_id]
                 rule == FirstMatch(repo_name, Excludes)
                 branch == BranchOf(ev)
             IN  IF rule # 0
                 THEN IF repo_name \notin skipped_repos
                      THEN [same EXCEPT
                              !.cache = cache,
                              !.skipped = skipped_repos \cup {repo_name},
                              !.printed = printed \cup
                                  {<< "skip", repo_name, Excludes[rule] >>}]
                      ELSE [same EXCEPT !.cache = cache]
                 ELSE IF branch # UnknownBranch
                      THEN [same EXCEPT
                              !.cache = cache,
                              !.active = active_repos_and_branches \cup
                                  {<< ev.project_id, repo_name, branch >>}]
                      ELSE [same EXCEPT !.cache = cache]

\* what the project-detail request can answer
LookupOutcomes ==
    IF faults_left > 0 THEN {"ok", "non200", "exception"} ELSE {"ok"}

\* the event makes the project-detail request: "project_id not in
\* project_cache"
MakesLookup(ev) ==
    /\ ContainsPushed(ev.action_name)
    /\ ev.project_id # 0
    /\ project_cache[ev.project_id] = << >>

\* the event makes the project-detail request and it fails
LookupFails(ev, lk) ==
    /\ ContainsPushed(ev.action_name)
    /\ ev.project_id # 0
    /\ project_cache[ev.project_id] = << >>
    /\ lk # "ok"

ProcessEvent ==
    /\ pc = "events_loop"
    /\ ev_left > 0
    /\ \E ev \in Events, lk \in LookupOutcomes :
          LET r == AfterEvent(ev, lk)
          IN  /\ faults_left' = IF LookupFails(ev, lk)
                                THEN faults_left - 1 ELSE faults_left
              /\ project_cache' = r.cache
              /\ skipped_repos' = r.skipped
              /\ active_repos_and_branches' = r.active
              /\ printed' = r.printed
              /\ project_requests' =
                    IF MakesLookup(ev)
                    THEN [project_requests EXCEPT ![ev.project_id] = @ + 1]
                    ELSE project_requests
    /\ ev_left' = ev_left - 1
    /\ UNCHANGED << pc, cfgVars, ev_pages_left, ev_budget, ev_next, listVars,
                    report, exit_code, html_file, page_requests, diff_requests,
                    matchVars >>

\* the pagination of the event scan: follow response.links['next'] or stop
EventsNextPage ==
    /\ pc = "events_loop"
    /\ ev_left = 0
    /\ IF ev_next
       THEN /\ pc' = "events_req"
            /\ UNCHANGED << ev_pages_left, ev_budget >>
       ELSE /\ pc' = "sort"
            /\ ev_pages_left' = 0
            /\ ev_budget' = 0
    /\ ev_next' = FALSE
    /\ UNCHANGED << cfgVars, envVars, ev_left, project_cache, skipped_repos,
                    active_repos_and_branches, listVars, outVars, reqVars,
                    matchVars >>

\* ------------------------------------------- step 2: the commit listings
branch_order == << b_master, b_main, b_prod, b_nonprod, b_develop, b_development >>

\* branch_order.index(branch), len(branch_order) on ValueError
BranchPriority(branch) ==
    IF \E i \in DOMAIN branch_order : branch_order[i] = branch
    THEN (CHOOSE i \in DOMAIN branch_order : branch_order[i] = branch) - 1
    ELSE Len(branch_order)

sort_key_by_name(item) == << item[2], Len(branch_order), item[3] >>

sort_key(item) == << item[2], BranchPriority(item[3]), item[3] >>

\* Python's k1 < k2 on the tuples sort_key returns
KeyLess(k1, k2) ==
    \/ StrLess(k1[1], k2[1])
    \/ /\ k1[1] = k2[1]
       /\ \/ k1[2] < k2[2]
          \/ k1[2] = k2[2] /\ StrLess(k1[3], k2[3])

\* sorted(list(S), key=sort_key): list(S) is in any order and the sort is
\* stable, so the result is any arrangement of S in non-descending key order
SortedArrangements(S) ==
    {f \in [1..Cardinality(S) -> S] :
        /\ \A i, j \in 1..Cardinality(S) : i # j => f[i] # f[j]
        /\ \A i, j \in 1..Cardinality(S) :
              i < j => ~KeyLess(sort_key(f[j]), sort_key(f[i]))}

SortCandidates ==
    /\ pc = "sort"
    /\ all_commits' = << >>
    /\ processed_shas' = {}
    /\ printed' = IF active_repos_and_branches # {}
                  THEN printed \cup
                       {<< "found", Cardinality(active_repos_and_branches) >>}
                  ELSE printed
    /\ \E f \in SortedArrangements(active_repos_and_branches) :
          sorted_active_branches' = f
    /\ idx' = 0
    /\ pc' = "cand_loop"
    /\ page_requests' = [k \in DOMAIN page_requests |-> 0]
    /\ UNCHANGED << cfgVars, envVars, scanVars, cm_pages_left, cm_budget, cm_left,
                    cm_next, fetched, failed, diff_failed, report, exit_code,
                    html_file, project_requests, diff_requests, matchVars >>

\* the head of "for project_id, repo_name, branch in sorted_active_branches"
NextCandidate ==
    /\ pc = "cand_loop"
    /\ IF idx < Len(sorted_active_branches)
       THEN /\ idx' = idx + 1
            /\ cm_pages_left' = MaxPages
            /\ printed' = printed \cup
                   {<< "fetching", sorted_active_branches[idx + 1][2],
                       sorted_active_branches[idx + 1][3] >>}
            /\ pc' = "commits_req"
            /\ UNCHANGED cm_budget
       ELSE /\ pc' = "return"
            /\ cm_budget' = 0
            /\ UNCHANGED << idx, cm_pages_left, printed >>
    /\ page_requests' = [k \in DOMAIN page_requests |-> 0]
    /\ UNCHANGED << cfgVars, envVars, scanVars, sorted_active_branches, cm_left,
                    cm_next, all_commits, processed_shas, fetched, failed,
                    diff_failed, report, exit_code, html_file,
                    project_requests, diff_requests, matchVars >>

NoParam == "(absent)"

CommitsParamsNoAuthor(branch) ==
    [ref_name |-> branch, since |-> WindowStart, author |-> NoParam]

\* commits_params; the next link of a page carries the same query
CommitsParams(branch) ==
    [ref_name |-> branch, since |-> WindowStart, author |-> UserEmail]

\* the commit records a listing can hold: a server that applies the query
\* returns commits of the author created at or after "since"
ServedCommits(params) ==
    IF honours
    THEN {c \in Commits :
            /\ params.author \in {NoParam, c.author_email}
            /\ Instant(c.created_at) >= params.since}
    ELSE Commits

AfterFetchFailureAbort == "return"

\* where the except clause of the commit listing leaves: break ends the
\* while loop, the for loop goes on
AfterFetchFailure == "cand_loop"

\* requests.get(commits_url), raise_for_status and "if not commits_from_api"
RequestCommits ==
    /\ pc = "commits_req"
    /\ cm_pages_left > 0
    /\ fetched' = fetched \cup {idx}
    /\ page_requests' = [page_requests EXCEPT ![PageNo(cm_pages_left)] = @ + 1]
    /\ \/ /\ faults_left > 0
          /\ faults_left' = faults_left - 1
          /\ printed' = printed \cup
                 {<< "fetch_error", sorted_active_branches[idx][2],
                     sorted_active_branches[idx][3] >>}
          /\ failed' = failed \cup {idx}
          /\ pc' = AfterFetchFailure
          /\ cm_pages_left' = 0
          /\ cm_left' = 0
          /\ cm_next' = FALSE
          /\ UNCHANGED cm_budget
       \/ \E n \in 0..cm_budget,
             next \in (IF cm_pages_left > 1 THEN BOOLEAN ELSE {FALSE}) :
             /\ cm_left' = n
             /\ cm_budget' = cm_budget - n
             /\ IF n = 0
                THEN /\ pc' = "cand_loop"
                     /\ cm_next' = FALSE
                     /\ cm_pages_left' = 0
                ELSE /\ pc' = "commits_loop"
                     /\ cm_next' = next
                     /\ cm_pages_left' = cm_pages_left - 1
             /\ UNCHANGED << printed, failed, faults_left >>
    /\ UNCHANGED << cfgVars, scanVars, sorted_active_branches, idx,
                    all_commits, processed_shas, diff_failed, report,
                    exit_code, html_file, project_requests, diff_requests,
                    matchVars >>

NeverDuplicate(short_id, shas) == FALSE

\* commit['short_id'] in processed_shas
IsDuplicate(short_id, shas) == short_id \in shas

DiffOutcomesAlways ==
    IF faults_left > 0 THEN {"files", "non200", "exception"} ELSE {"files"}

ProcessedForgets(shas, short_id) == shas

\* processed_shas.add(commit['short_id'])
Processed(shas, short_id) == shas \cup {short_id}

\* what the diff request of a retained commit can answer; "none" when
\* fetch_diffs is off and no request is made
DiffOutcomes ==
    IF ~fetch_diffs THEN {"none"}
    ELSE IF faults_left > 0 THEN {"files", "non200", "exception"}
    ELSE {"files"}

DiffFailed(d) == d \in {"non200", "exception"}

DiffTextBlankOnFailure(d) ==
    IF d = "files" THEN "--- Modified: f ---\n+x" ELSE ""

\* diff_text: the joined file diffs on a 200 answer, a placeholder otherwise
DiffText(d) ==
    CASE d = "none" -> ""
      [] d = "files" -> "--- Modified: f ---\n+x"
      [] d = "non200" -> "Could not retrieve diff."
      [] d = "exception" -> "Error fetching diff: e"

\* fromisoformat keeps the offset the timestamp was written in, and
\* strftime('%Y-%m-%d %H:%M') prints its wall-clock fields down to the
\* minute: the minutes of the wall-clock time stand for the string
FormatDate(created_at) == created_at.wall \div 60

\* the body of "for commit in commits_from_api" for one commit
ProcessCommit ==
    /\ pc = "commits_loop"
    /\ cm_left > 0
    /\ LET repo_name == sorted_active_branches[idx][2]
           branch == sorted_active_branches[idx][3]
       IN  \E commit \in ServedCommits(CommitsParams(branch)) :
             IF IsDuplicate(commit.short_id, processed_shas)
             THEN /\ printed' = printed \cup
                         {<< "duplicate", commit.short_id, branch, repo_name >>}
                  /\ UNCHANGED << processed_shas, all_commits, diff_failed,
                                  faults_left, diff_requests >>
             ELSE \E d \in DiffOutcomes :
                  /\ processed_shas' = Processed(processed_shas, commit.short_id)
                  /\ all_commits' = Append(all_commits,
                         [repo_name |-> repo_name,
                          date |-> FormatDate(commit.created_at),
                          branch |-> branch,
                          short_sha |-> commit.short_id,
                          diff |-> DiffText(d)])
                  /\ diff_failed' = IF DiffFailed(d)
                                    THEN diff_failed \cup {commit.short_id}
                                    ELSE diff_failed
                  /\ faults_left' = IF DiffFailed(d)
                                    THEN faults_left - 1 ELSE faults_left
                  /\ diff_requests' =
                        IF d # "none"
                        THEN [diff_requests EXCEPT ![commit.short_id] = @ + 1]
                        ELSE diff_requests
                  /\ UNCHANGED printed
    /\ cm_left' = cm_left - 1
    /\ UNCHANGED << pc, cfgVars, scanVars, sorted_active_branches, idx,
                    cm_pages_left, cm_budget, cm_next, fetched, failed,
                    report, exit_code, html_file, page_requests,
                    project_requests, matchVars >>

AfterCommitsPageStops(next) == "cand_loop"

\* "if 'next' in response.links" after a commit page: the while loop goes
\* on with the next link, or break
AfterCommitsPage(next) == IF next THEN "commits_req" ELSE "cand_loop"

\* the pagination of a commit listing
CommitsNextPage ==
    /\ pc = "commits_loop"
    /\ cm_left = 0
    /\ pc' = AfterCommitsPage(cm_next)
    /\ IF cm_next
       THEN UNCHANGED cm_pages_left
       ELSE cm_pages_left' = 0
    /\ cm_next' = FALSE
    /\ UNCHANGED << cfgVars, envVars, scanVars, sorted_active_branches, idx,
                    cm_budget, cm_left, all_commits, processed_shas, fetched,
                    failed, diff_failed, outVars, reqVars, matchVars >>

\* ------------------------------------------------------------ the report
\* Python's < on the keys (x['repo_name'], x['date'])
ReportKeyLess(x, y) ==
    \/ StrLess(x.repo_name, y.repo_name)
    \/ x.repo_name = y.repo_name /\ x.date < y.date

\* one step of a stable sort: x goes before the first element it is less than
InsertSorted(sorted, x) ==
    LET later == {i \in DOMAIN sorted : ReportKeyLess(x, sorted[i])}
    IN  IF later = {}
        THEN Append(sorted, x)
        ELSE LET k == CHOOSE i \in later : \A j \in later : i <= j
             IN  SubSeq(sorted, 1, k - 1) \o << x >> \o SubSeq(sorted, k, Len(sorted))

RECURSIVE SortedCommits(_)
\* sorted(all_commits, key=lambda x: (x['repo_name'], x['date']))
SortedCommits(commits) ==
    IF commits = << >>
    THEN << >>
    ELSE InsertSorted(SortedCommits(SubSeq(commits, 1, Len(commits) - 1)),
                      commits[Len(commits)])

ReturnSorted ==
    /\ pc = "return"
    /\ report' = SortedCommits(all_commits)
    /\ pc' = "main_out"
    /\ UNCHANGED << cfgVars, envVars, scanVars, listVars, printed, exit_code,
                    html_file, reqVars, matchVars >>

NoCommitsIgnored(commits) == FALSE

\* "if not commits" in main()
NoCommits(commits) == commits = << >>

\* main() after get_gitlab_commits: the no-commits message, or the console
\* output and, with --report, generate_report (which returns without
\* writing when a template file is missing)
MainOutput ==
    /\ pc = "main_out"
    /\ IF NoCommits(report)
       THEN /\ printed' = printed \cup {<< "no_commits" >>}
            /\ UNCHANGED html_file
       ELSE IF fetch_diffs
            THEN \E templates \in BOOLEAN :
                    /\ html_file' = templates
                    /\ printed' = printed \cup
                          {<< "console" >>, << "report_generated" >>} \cup
                          (IF templates THEN {} ELSE {<< "template_error" >>})
            ELSE /\ printed' = printed \cup {<< "console" >>}
                 /\ UNCHANGED html_file
    /\ exit_code' = 0
    /\ pc' = "exit"
    /\ UNCHANGED << cfgVars, envVars, scanVars, listVars, report, reqVars,
                    matchVars >>

\* ---------------------------------------------------- the exclude-rule test
\* the characters rules and paths are drawn from
MatchChars == {"p", "/", "-"}

MatchStrings ==
    UNION {[1..n -> MatchChars] : n \in 1..MaxLen}

\* lines 98-105 on one repository name and one list of rules
MatchExclude ==
    /\ m_pc = "start"
    /\ m_rule' = FirstMatch(m_name, m_excludes)
    /\ m_excluded' = (FirstMatch(m_name, m_excludes) # 0)
    /\ m_pc' = "done"
    /\ UNCHANGED << m_excludes, m_name, mainVars >>

\* ------------------------------------------------------- specifications
\* the state main() starts in, with what the server can serve
InitRun(events, commits) ==
    /\ pc = "main_user"
    /\ faults_left = MaxFaults
    /\ ev_pages_left = MaxPages
    /\ ev_budget = events
    /\ ev_left = 0
    /\ ev_next = FALSE
    /\ project_cache = [p \in Projects |-> << >>]
    /\ skipped_repos = {}
    /\ active_repos_and_branches = {}
    /\ sorted_active_branches = << >>
    /\ idx = 0
    /\ cm_pages_left = 0
    /\ cm_budget = commits
    /\ cm_left = 0
    /\ cm_next = FALSE
    /\ all_commits = << >>
    /\ processed_shas = {}
    /\ fetched = {}
    /\ failed = {}
    /\ diff_failed = {}
    /\ report = << >>
    /\ printed = {}
    /\ exit_code = -1
    /\ html_file = FALSE
    /\ page_requests = [k \in 1..MaxPages |-> 0]
    /\ project_requests = [p \in Projects |-> 0]
    /\ diff_requests = [sha \in {c.short_id : c \in Commits} |-> 0]

MatchOff ==
    /\ m_pc = "off"
    /\ m_excludes = << >>
    /\ m_name = << >>
    /\ m_excluded = FALSE
    /\ m_rule = 0

\* runs with and without --report against a server that applies the query
Init ==
    /\ InitRun(MaxEvents, MaxCommits)
    /\ fetch_diffs \in BOOLEAN
    /\ honours = TRUE
    /\ MatchOff

Next ==
    \/ GetCurrentUser
    \/ RequestEvents
    \/ ProcessEvent
    \/ EventsNextPage
    \/ SortCandidates
    \/ NextCandidate
    \/ RequestCommits
    \/ ProcessCommit
    \/ CommitsNextPage
    \/ ReturnSorted
    \/ MainOutput

Spec == Init /\ [][Next]_vars

\* runs without --report against a server that may ignore the query
InitAnyServer ==
    /\ InitRun(AnyServerEvents, AnyServerCommits)
    /\ fetch_diffs = FALSE
    /\ honours \in BOOLEAN
    /\ MatchOff

SpecAnyServer == InitAnyServer /\ [][Next]_vars

\* runs without --report in which every enabled step is eventually taken:
\* the interpreter does not stop between two statements
InitFair ==
    /\ InitRun(FairEvents, FairCommits)
    /\ fetch_diffs = FALSE
    /\ honours = TRUE
    /\ MatchOff

SpecFair == InitFair /\ [][Next]_vars /\ WF_vars(Next)

\* the exclude-rule test on every rule and path up to MaxLen characters
InitMatch ==
    /\ InitRun(0, 0)
    /\ fetch_diffs = FALSE
    /\ honours = TRUE
    /\ m_pc = "start"
    /\ m_excludes \in {<< r >> : r \in MatchStrings}
    /\ m_name \in MatchStrings
    /\ m_excluded = FALSE
    /\ m_rule = 0

NextMatch == MatchExclude

SpecMatch == InitMatch /\ [][NextMatch]_vars

\* ------------------------------------------------------------ properties
\* the run is over and get_gitlab_commits returned
Returned == pc = "exit" /\ exit_code = 0

\* a "Skipping duplicate commit" message
IsDuplicateMessage(m) == m[1] = "duplicate"

\* b1 is processed before b2 among the candidates of one repository
BranchBefore(b1, b2) ==
    LET p1 == BranchPriority(b1)
        p2 == BranchPriority(b2)
    IN  b1 # b2 /\ (p1 < p2 \/ (p1 = p2 /\ StrLess(b1, b2)))

\* C1: no two commits of the collected list, and none of the returned
\* report, carry the same short identifier
C1_UniqueShortSha ==
    /\ \A i, j \in DOMAIN all_commits :
          i # j => all_commits[i].short_sha # all_commits[j].short_sha
    /\ \A i, j \in DOMAIN report :
          i # j => report[i].short_sha # report[j].short_sha

\* a finished run in which a commit came back a second time, from another
\* repository, and two commits were retained
C1_Witness ==
    /\ Returned
    /\ Len(report) = 2
    /\ \E m \in printed, i \in DOMAIN report :
          /\ IsDuplicateMessage(m)
          /\ m[2] = report[i].short_sha
          /\ m[4] # report[i].repo_name

\* the branches of repository r whose fetched pages returned commit sha
BranchesReturning(r, sha) ==
    {report[i].branch : i \in {k \in DOMAIN report :
        report[k].short_sha = sha /\ report[k].repo_name = r}}
    \cup {m[3] : m \in {x \in printed :
        IsDuplicateMessage(x) /\ x[2] = sha /\ x[4] = r}}

\* C2 as stated: when two branch candidates of one repository returned a
\* commit, the copy in the final report carries the first of these branches
\* in the priority order
C2_AsStated ==
    Returned =>
        \A i \in DOMAIN report, m \in printed :
            (/\ IsDuplicateMessage(m)
             /\ m[2] = report[i].short_sha
             /\ Cardinality(BranchesReturning(m[4], m[2])) >= 2)
            => /\ report[i].branch \in BranchesReturning(m[4], m[2])
               /\ \A b \in BranchesReturning(m[4], m[2]) :
                     ~BranchBefore(b, report[i].branch)

\* the pairs of branches of the events in which the first is processed
\* before the second
EarlierBranch ==
    {pair \in {BranchOf(ev) : ev \in Events} \X {BranchOf(ev) : ev \in Events} :
        BranchBefore(pair[1], pair[2])}

\* the copy of a commit in the list is not preceded, in the priority order,
\* by a branch of its own repository that returned the commit too
FirstBranchOfRepository(commits) ==
    \A m \in printed, i \in DOMAIN commits :
        (/\ IsDuplicateMessage(m)
         /\ m[2] = commits[i].short_sha
         /\ m[4] = commits[i].repo_name)
        => << m[3], commits[i].branch >> \notin EarlierBranch

\* C2 amended: when two branch candidates of one repository returned a
\* commit in fetched pages and the retained copy is that repository's (no
\* repository sorted earlier returned it), the copy carries the first of
\* these branches in the priority order
C2_FirstBranchOfRepository ==
    /\ FirstBranchOfRepository(all_commits)
    /\ Returned => FirstBranchOfRepository(report)

\* a finished run where main and develop of one repository returned the same
\* commit and the report attributes it to main
C2_Witness ==
    /\ Returned
    /\ \E i \in DOMAIN report, m \in printed :
          /\ IsDuplicateMessage(m)
          /\ m[2] = report[i].short_sha
          /\ m[4] = report[i].repo_name
          /\ m[3] = b_develop
          /\ report[i].branch = b_main

\* the rule matches the path as the exclusion is specified: the path is the
\* rule, or the rule followed by "/" starts it
RuleMatches(path, rule) == path = rule \/ StartsWith(path, rule \o << "/" >>)

\* C3 as stated: a repository is excluded exactly when its path equals a
\* rule or starts with a rule followed by "/"
C3_AsStated ==
    m_pc = "done" =>
        (m_excluded <=> \E i \in DOMAIN m_excludes : RuleMatches(m_name, m_excludes[i]))

\* C4 as stated: a repository whose path matches an exclude rule is fully
\* skipped, also when its project-detail lookup fails: none of its branches
\* is a candidate, none is fetched and the report holds none of its commits
C4_AsStated ==
    \A p \in Projects :
        (\E i \in DOMAIN Excludes : RuleMatches(ProjPath[p], Excludes[i]))
        => /\ \A c \in active_repos_and_branches : c[1] # p
           /\ \A k \in DOMAIN sorted_active_branches :
                 sorted_active_branches[k][1] # p
           /\ \A i \in DOMAIN report :
                 ~\E c \in active_repos_and_branches :
                     /\ c[1] = p
                     /\ c[2] = report[i].repo_name
                     /\ c[3] = report[i].branch

\* the commit is the target user's and inside the window
InWindowByUser(short_sha) ==
    /\ Instant(CommitOf(short_sha).created_at) >= WindowStart
    /\ CommitOf(short_sha).author_email = UserEmail

\* C5 as stated: whatever records the server returns, every commit of the
\* final report was created at or after the window start by the target user
C5_AsStated ==
    \A i \in DOMAIN report : InWindowByUser(report[i].short_sha)

\* C5 amended: when the server applies the author and since parameters of
\* the commit-list request, every collected and every reported commit was
\* created at or after the window start by the target user
C5_FilteredByServer ==
    honours =>
        /\ \A i \in DOMAIN all_commits : InWindowByUser(all_commits[i].short_sha)
        /\ \A i \in DOMAIN report : InWindowByUser(report[i].short_sha)

\* a finished run against a server that applies the query, with two
\* commits in the report
C5_Witness == Returned /\ honours /\ Len(report) = 2

\* the for loop over the candidates is over
LoopOver == pc \in {"return", "main_out", "exit"} /\ exit_code # 1

\* what holds of the candidates in every state: a failed listing is logged
\* and left, every candidate before the current one was fetched, after the
\* loop every candidate was, and no failure sets an exit status
FetchFailureLeavesCandidate ==
    /\ \A k \in failed :
          /\ << "fetch_error", sorted_active_branches[k][2],
                sorted_active_branches[k][3] >> \in printed
          /\ ~(idx = k /\ pc \in {"commits_req", "commits_loop"})
    /\ \A k \in 1..(idx - 1) : k \in fetched
    /\ LoopOver => fetched = DOMAIN sorted_active_branches
    /\ failed # {} => exit_code \in {-1, 0}

\* the step in which a commit-list request fails goes back to the head of
\* the for loop and changes nothing that was collected
FetchFailureStep ==
    failed' # failed =>
        /\ pc' = "cand_loop"
        /\ idx' = idx
        /\ sorted_active_branches' = sorted_active_branches
        /\ all_commits' = all_commits
        /\ processed_shas' = processed_shas
        /\ exit_code' = exit_code

\* C6: a failed commit-list request is logged and ends the work on its
\* candidate only: the step goes back to the head of the for loop with the
\* collected commits untouched, every later candidate is fetched and no
\* exit status is set
C6_FetchFailureSkipsCandidate ==
    [] FetchFailureLeavesCandidate /\ [][FetchFailureStep]_vars

\* a finished run in which the listing of one candidate failed and a commit
\* of a later candidate is in the report
C6_Witness ==
    /\ Returned
    /\ \E k \in failed, j \in DOMAIN sorted_active_branches, i \in DOMAIN report :
          /\ k < j
          /\ report[i].repo_name = sorted_active_branches[j][2]
          /\ report[i].branch = sorted_active_branches[j][3]

\* C7 as stated: a failed identity lookup and a failed event-listing request
\* both abort the run with a non-zero exit status, before any commit
\* collection, console summary or report
C7_AsStated ==
    (<< "user_error" >> \in printed \/ << "events_error" >> \in printed)
    => /\ pc = "exit"
       /\ exit_code > 0
       /\ fetched = {}
       /\ report = << >>
       /\ printed \cap {<< "console" >>, << "no_commits" >>,
                        << "report_generated" >>} = {}
       /\ ~html_file

\* a commit whose diff request failed is in the collected list, and in the
\* report once it is returned, with a non-empty diff text
DiffFailureKept ==
    /\ \A sha \in diff_failed :
          /\ \E i \in DOMAIN all_commits :
                all_commits[i].short_sha = sha /\ all_commits[i].diff # ""
          /\ Returned =>
                \E i \in DOMAIN report :
                   report[i].short_sha = sha /\ report[i].diff # ""
    /\ diff_failed # {} =>
          /\ exit_code \in {-1, 0}
          /\ LoopOver => fetched = DOMAIN sorted_active_branches

\* the step in which a diff request fails appends the commit and stays in
\* the loop over the page, with one record less to read
DiffFailureStep ==
    diff_failed' # diff_failed =>
        /\ pc' = "commits_loop"
        /\ cm_left' = cm_left - 1
        /\ cm_next' = cm_next
        /\ idx' = idx
        /\ Len(all_commits') = Len(all_commits) + 1
        /\ all_commits'[Len(all_commits')].short_sha \in diff_failed'
        /\ all_commits'[Len(all_commits')].diff # ""

\* C8: a commit whose diff request failed stays in the final report with a
\* non-empty placeholder as its diff, and the run goes on to the remaining
\* commits and candidates
C8_DiffFailureKeepsCommit ==
    [] DiffFailureKept /\ [][DiffFailureStep]_vars

\* a finished run with --report in which a diff request failed and a commit
\* read after it was retained too
C8_Witness ==
    /\ Returned
    /\ fetch_diffs
    /\ \E i, j \in DOMAIN all_commits :
          i < j /\ all_commits[i].short_sha \in diff_failed

\* a step in which a remote call failed
RemoteCallFails == faults_left' < faults_left

\* the messages that report a failed remote call
ErrorMessages ==
    {m \in printed' \ printed :
        m[1] \in {"user_error", "events_error", "fetch_error"}}

\* C11 as stated: every failed remote call (identity lookup, event page,
\* project-detail lookup, commit-list page, per-commit diff) prints a
\* message for that failure
C11_AsStated == [][RemoteCallFails => ErrorMessages # {}]_vars

\* C12: when the collection yields no commit, main prints the no-commits
\* message and ends with status 0; neither the console printer nor the
\* report generator runs and no HTML file is written, with --report too
C12_NoCommitsNoReport ==
    (pc = "exit" /\ exit_code # 1 /\ report = << >>)
    => /\ exit_code = 0
       /\ << "no_commits" >> \in printed
       /\ printed \cap {<< "console" >>, << "report_generated" >>,
                        << "template_error" >>} = {}
       /\ ~html_file

\* a finished run with --report whose candidates gave no commit
C12_Witness ==
    /\ Returned
    /\ fetch_diffs
    /\ report = << >>
    /\ fetched # {}

\* no request was made twice: no page of the listing in progress, no
\* project-detail lookup of the run, no diff of the run; and the candidates
\* are distinct, so that no listing is gone through twice
RequestedOnce ==
    /\ \A k \in DOMAIN page_requests : page_requests[k] <= 1
    /\ \A p \in DOMAIN project_requests : project_requests[p] <= 1
    /\ \A sha \in DOMAIN diff_requests : diff_requests[sha] <= 1
    /\ \A i, j \in DOMAIN sorted_active_branches :
          i # j => sorted_active_branches[i] # sorted_active_branches[j]

\* a step never goes back to an earlier candidate; a failed page request
\* leaves the listing, the project of a failed lookup is cached under the
\* fallback name and the commit of a failed diff is in the duplicate set,
\* so that none of them is requested again
FailedRequestNotReissued ==
    /\ idx' >= idx
    /\ RemoteCallFails =>
          /\ pc' \notin {"events_req", "commits_req", "main_user"}
          /\ \A p \in Projects :
                project_requests'[p] # project_requests[p]
                => project_cache'[p] = UnknownProject
          /\ \A sha \in DOMAIN diff_requests :
                diff_requests'[sha] # diff_requests[sha]
                => sha \in processed_shas'

\* C13: within one run each event page, each project-detail lookup per
\* project id, each commit-list page of a candidate and each commit's diff
\* is requested at most once, and a failed request is not re-issued: its
\* unit of work is left
C13_NoRetry == [] RequestedOnce /\ [][FailedRequestNotReissued]_vars

\* a commit listing went over two pages after the listing of an earlier
\* candidate had failed, and a project was looked up
C13_Witness ==
    /\ pc = "cand_loop"
    /\ failed # {}
    /\ idx \notin failed
    /\ page_requests[2] = 1
    /\ \E p \in Projects : project_requests[p] = 1

\* the short ids whose diff was requested
DiffRequested == {sha \in DOMAIN diff_requests : diff_requests[sha] > 0}

\* C14: without --report no diff request is made and every commit's diff is
\* empty; with --report a diff is requested for exactly the retained
\* commits, never for a commit dropped as a duplicate
C14_DiffsOnlyForReport ==
    /\ ~fetch_diffs =>
          /\ DiffRequested = {}
          /\ \A i \in DOMAIN all_commits : all_commits[i].diff = ""
          /\ \A i \in DOMAIN report : report[i].diff = ""
    /\ fetch_diffs =>
          DiffRequested = {all_commits[i].short_sha : i \in DOMAIN all_commits}

\* a finished run with --report in which one commit was dropped as a
\* duplicate and two commits were retained
C14_Witness ==
    /\ Returned
    /\ fetch_diffs
    /\ Len(report) = 2
    /\ Cardinality(DiffRequested) = 2
    /\ \E m \in printed : IsDuplicateMessage(m)

\* the steps of the two pagination loops: a page is read to its end; a page
\* read to its end is followed by the request of the next link when it has
\* one and by the end of the listing when it has none; a request is made
\* only at the start of a listing or after such a page; a request ends in
\* the reading of the page, or in the end of the listing when it failed or,
\* in a commit listing, the page is empty
PaginationStep ==
    /\ (pc = "events_loop" /\ ev_left > 0)
          => pc' = "events_loop" /\ ev_left' = ev_left - 1
    /\ (pc = "commits_loop" /\ cm_left > 0)
          => pc' = "commits_loop" /\ cm_left' = cm_left - 1 /\ idx' = idx
    /\ (pc = "events_loop" /\ ev_left = 0)
          => pc' = (IF ev_next THEN "events_req" ELSE "sort")
    /\ (pc = "commits_loop" /\ cm_left = 0)
          => /\ pc' = (IF cm_next THEN "commits_req" ELSE "cand_loop")
             /\ idx' = idx
    /\ (pc' = "events_req" /\ pc # "events_req")
          => pc = "main_user" \/ (pc = "events_loop" /\ ev_left = 0 /\ ev_next)
    /\ (pc' = "commits_req" /\ pc # "commits_req")
          => \/ pc = "cand_loop" /\ idx' = idx + 1
             \/ pc = "commits_loop" /\ cm_left = 0 /\ cm_next
    /\ pc = "events_req"
          => \/ pc' = "events_loop" /\ ~RemoteCallFails
             \/ pc' = "sort" /\ RemoteCallFails
    /\ pc = "commits_req"
          => \/ pc' = "commits_loop" /\ cm_left' > 0 /\ ~RemoteCallFails
             \/ pc' = "cand_loop" /\ (RemoteCallFails \/ cm_left' = 0)

\* C15: in the event scan and in every commit listing the following page is
\* requested only after a page that succeeded and carried a next link,
\* every page up to the first one without a next link is read to its end
\* (a commit listing also stops at an empty page), and the run terminates
C15_Pagination == [][PaginationStep]_vars /\ <>(pc = "exit")

\* the end of a commit listing that went over two pages without a failure
\* and gave two commits
C15_Witness ==
    /\ pc = "cand_loop"
    /\ failed = {}
    /\ page_requests[2] = 1
    /\ Len(all_commits) = 2

\* C16: the duplicate set is the set of the short ids of the collected
\* commits, and every id of the set is carried by exactly one collected
\* commit, also when the diff request of that commit failed
C16_ProcessedShasAreCollected ==
    /\ processed_shas = {all_commits[i].short_sha : i \in DOMAIN all_commits}
    /\ \A sha \in processed_shas \cup diff_failed :
          Cardinality({i \in DOMAIN all_commits :
                          all_commits[i].short_sha = sha}) = 1

\* two commits were collected, the diff request of one failed and a record
\* was dropped as a duplicate
C16_Witness ==
    /\ Len(all_commits) = 2
    /\ diff_failed # {}
    /\ \E m \in printed : IsDuplicateMessage(m)

\* the step of a failed event or commit page request changes nothing that
\* was accumulated
PageFailureFrame ==
    (RemoteCallFails /\ pc \in {"events_req", "commits_req"})
    => /\ all_commits' = all_commits
       /\ processed_shas' = processed_shas
       /\ active_repos_and_branches' = active_repos_and_branches
       /\ sorted_active_branches' = sorted_active_branches
       /\ project_cache' = project_cache
       /\ diff_failed' = diff_failed

\* the number of commits of the list that equal c
Occurrences(commits, c) ==
    Cardinality({i \in DOMAIN commits : commits[i] = c})

\* what was accumulated is used: once the for loop is over every candidate
\* found by the event scan was listed, and the returned report holds the
\* collected commits, each as often and as it was collected
AccumulatedKept ==
    /\ LoopOver =>
          /\ {sorted_active_branches[k] : k \in DOMAIN sorted_active_branches}
                = active_repos_and_branches
          /\ fetched = DOMAIN sorted_active_branches
    /\ (pc \in {"main_out", "exit"} /\ exit_code # 1) =>
          /\ Len(report) = Len(all_commits)
          /\ \A i \in DOMAIN all_commits :
                Occurrences(report, all_commits[i])
                   = Occurrences(all_commits, all_commits[i])
          /\ processed_shas =
                {report[i].short_sha : i \in DOMAIN report}

\* C17: a failed request of a later page of the event scan or of a commit
\* listing leaves what the earlier pages gave: the commits retained stay,
\* with their branch, in the final report, their ids stay in the duplicate
\* set and the candidates found on earlier event pages are listed
C17_FailureKeepsEarlierPages ==
    [] AccumulatedKept /\ [][PageFailureFrame]_vars

\* a finished run in which the second page of a commit listing failed and
\* a commit of its first page is in the report
C17_Witness ==
    /\ Returned
    /\ \E k \in failed, i \in DOMAIN report :
          /\ report[i].repo_name = sorted_active_branches[k][2]
          /\ report[i].branch = sorted_active_branches[k][3]
          /\ report[i].short_sha \in processed_shas

\* str.lower on the characters in use
Lower(c) ==
    CASE c = "B" -> "b"
      [] c = "P" -> "p"
      [] c = "U" -> "u"
      [] OTHER -> c

LowerStr(s) == [i \in DOMAIN s |-> Lower(s[i])]

\* C9 as stated: the repositories of the report are in case-insensitive
\* lexical order of their names and the commits of one repository are
\* contiguous
C9_AsStated ==
    Returned =>
        /\ \A i, j \in DOMAIN report :
              i < j => ~StrLess(LowerStr(report[j].repo_name),
                                LowerStr(report[i].repo_name))
        /\ \A i, j, k \in DOMAIN report :
              (i < k /\ k < j /\ report[i].repo_name = report[j].repo_name)
              => report[k].repo_name = report[i].repo_name

\* C10 as stated: the commits of one repository are in ascending order of
\* the instant they were created
C10_AsStated ==
    Returned =>
        \A i, j \in DOMAIN report :
            (i < j /\ report[i].repo_name = report[j].repo_name)
            => Instant(CommitOf(report[i].short_sha).created_at)
                   <= Instant(CommitOf(report[j].short_sha).created_at)

====
